---- MODULE Spec2Model ----
(***************************************************************************)
(* lld (LinkedIn Learning downloader), src/main.go.                        *)
(*                                                                         *)
(* One run of main(): flag check, browser session, SSO login, course       *)
(* extraction, then the per-lesson loop visitVideo -> downloadTranscript   *)
(* -> downloadVideo.  Strings are sequences of one-character strings.      *)
(* The browser, the file system and the HTTP server are the environment:   *)
(* what they answer is drawn with \E in the action that asks them.         *)
(***************************************************************************)
EXTENDS Integers, Sequences, FiniteSets, TLC

VARIABLES
    flag,       \* the parsed command line: [transcripts, videos, json]
    page,       \* the course page the browser will render (environment)
    pc,         \* position of the single thread of control
    session,    \* newChromeDPCtx has run: a browser session exists
    cancelled,  \* the combined cancel function has been called
    expired,    \* the context's deadline has passed (ctx.Done() is closed)
    exitStatus, \* -1 while running, else the process's exit status
    fatal,      \* which log.Fatal ended the run: "none", "flags", "login", "parse"
    videos,     \* []VideoEntry returned by parseCourseVideos
    i,          \* 1-based position of the range loop in videos (0 before it)
    href,       \* the href argument of the running visitVideo chain
    count,      \* the count argument of the running visitVideo call
    load,       \* what the last chromedp.Run of visitVideo answered
    ret,        \* what the last top-level visitVideo returned
    files,      \* the file system: path -> [by, data, url]
    fetched,    \* the last fetcher call of this loop iteration and how it ended
    startedLate,\* history: the running visitVideo chain began after the deadline
    call,       \* a function applied on its own: [fn, arg, out]
    navs,       \* history: chromedp.Run calls of the visitVideo chain (0 when none runs)
    sleeps,     \* history: time.Sleep calls of the visitVideo chain
    nfRetries,  \* history: recursive calls made from its navigation-failed branch
    rlRetries,  \* history: recursive calls made from its rate-limited branch
    res,        \* history: per lesson, the result of its visitVideo ("none" before)
    inv,        \* history: per lesson, top-level visitVideo calls made by the loop
    tf,         \* history: per lesson, downloadTranscript calls
    vf          \* history: per lesson, downloadVideo calls

vars == << flag, page, pc, session, cancelled, expired, exitStatus, fatal, videos,
           i, href, count, load, ret, files, navs, sleeps, nfRetries, rlRetries,
           res, inv, tf, vf, fetched, startedLate, call >>

---------------------------------------------------------------------------
(* Bounds and program constants *)

\* longest free-form input string given to a function applied on its own
MaxLen == 3

\* largest generated course page: sections, and items per section
MaxSections == 2
MaxItems == 3

\* counters stop growing here; the code only compares count with maxRetry
MaxCount == 8

\* const maxRetry = 6
maxRetry == 6

---------------------------------------------------------------------------
(* Characters *)

Lower == {"a","b","c","d","e","f","g","h","i","j","k","l","m",
          "n","o","p","q","r","s","t","u","v","w","x","y","z"}
Upper == {"A","B","C","D","E","F","G","H","I","J","K","L","M",
          "N","O","P","Q","R","S","T","U","V","W","X","Y","Z"}
Digit == {"0","1","2","3","4","5","6","7","8","9"}

\* the complement of the class in invalidRE = [^a-zA-Z0-9._-]+
ValidChar == Lower \cup Upper \cup Digit \cup {".", "_", "-"}

\* what strings.TrimSpace removes (the ASCII part of unicode.IsSpace)
SpaceChar == {" ", "\t", "\n", "\r", "\f"}

\* the literal removed by sanitizeFileName: "| LinkedIn Learning"
Branding == << "|", " ", "L","i","n","k","e","d","I","n", " ",
               "L","e","a","r","n","i","n","g" >>

---------------------------------------------------------------------------
(* Pure string functions *)

HasPrefix(s, p) == Len(s) >= Len(p) /\ SubSeq(s, 1, Len(p)) = p

Drop(s, n) == SubSeq(s, n + 1, Len(s))

\* strings.ReplaceAll(s, old, ""), old non-empty: leftmost non-overlapping matches
RECURSIVE RemoveAll(_, _)
RemoveAll(s, old) ==
    IF s = << >> THEN << >>
    ELSE IF HasPrefix(s, old) THEN RemoveAll(Drop(s, Len(old)), old)
    ELSE << Head(s) >> \o RemoveAll(Tail(s), old)

RECURSIVE TrimLeft(_)
TrimLeft(s) ==
    IF s # << >> /\ Head(s) \in SpaceChar THEN TrimLeft(Tail(s)) ELSE s

RECURSIVE TrimRight(_)
TrimRight(s) ==
    IF s # << >> /\ s[Len(s)] \in SpaceChar
    THEN TrimRight(SubSeq(s, 1, Len(s) - 1)) ELSE s

\* strings.TrimSpace
TrimSpace(s) == TrimRight(TrimLeft(s))

\* invalidRE.ReplaceAllString(s, "_"): every maximal run of invalid characters
\* becomes one underscore
RECURSIVE ReplaceInvalid(_, _)
ReplaceInvalid(s, inRun) ==
    IF s = << >> THEN << >>
    ELSE IF Head(s) \in ValidChar
         THEN << Head(s) >> \o ReplaceInvalid(Tail(s), FALSE)
         ELSE (IF inRun THEN << >> ELSE << "_" >>) \o ReplaceInvalid(Tail(s), TRUE)

\* sanitizeFileName without the invalidRE replacement
sanitizeFileNameNoRegex(s) == TrimSpace(RemoveAll(s, Branding))

sanitizeFileName(s) == ReplaceInvalid(TrimSpace(RemoveAll(s, Branding)), FALSE)

DigitChar == << "0","1","2","3","4","5","6","7","8","9" >>

\* strconv.Itoa for n >= 0
RECURSIVE Itoa(_)
Itoa(n) == IF n < 10 THEN << DigitChar[n + 1] >>
           ELSE Itoa(n \div 10) \o << DigitChar[(n % 10) + 1] >>

\* the %02d verb of fmt.Sprintf for n >= 0
Fmt02d(n) == IF n < 10 THEN << "0" >> \o Itoa(n) ELSE Itoa(n)

\* sanitizeFileName(fmt.Sprintf("%s.%02d.%s", v.Section, v.Index, v.Title))
FileStem(v) ==
    sanitizeFileName(v.section \o << "." >> \o Fmt02d(v.index) \o << "." >> \o v.title)

---------------------------------------------------------------------------
(* net/url as parseCourseVideos uses it: url.Parse, RawQuery = "", String() *)

HexChar == Digit \cup {"a","b","c","d","e","f","A","B","C","D","E","F"}

\* bytes url.Parse rejects anywhere before the fragment (stringContainsCTLByte)
CtlChar == {"\t", "\n", "\r", "\f"}

\* position of the first c in s, 0 when there is none
RECURSIVE IndexOf(_, _, _)
IndexOf(s, c, k) ==
    IF k > Len(s) THEN 0 ELSE IF s[k] = c THEN k ELSE IndexOf(s, c, k + 1)

CountOf(s, c) == Cardinality({k \in 1..Len(s) : s[k] = c})

\* every "%" starts a "%XX" escape (unescape's EscapeError otherwise)
ValidEscapes(s) ==
    \A k \in 1..Len(s) :
        s[k] = "%" => /\ k + 2 <= Len(s)
                      /\ s[k + 1] \in HexChar
                      /\ s[k + 2] \in HexChar

\* url.Parse on a reference of the form path[?query][#fragment]
urlParse(raw) ==
    LET h     == IndexOf(raw, "#", 1)
        u     == IF h = 0 THEN raw ELSE SubSeq(raw, 1, h - 1)
        frag  == IF h = 0 THEN << >> ELSE Drop(raw, h)
        q     == IndexOf(u, "?", 1)
        force == q # 0 /\ q = Len(u) /\ CountOf(u, "?") = 1
        path  == IF q = 0 THEN u ELSE SubSeq(u, 1, q - 1)
        query == IF q = 0 \/ force THEN << >> ELSE Drop(u, q)
    IN  [ ok         |-> /\ \A k \in 1..Len(u) : u[k] \notin CtlChar
                         /\ ValidEscapes(path)
                         /\ ValidEscapes(frag),
          Path       |-> path,
          ForceQuery |-> force,
          RawQuery   |-> query,
          Fragment   |-> frag ]

\* (*URL).String() for such a reference
urlString(u) ==
    u.Path
    \o (IF u.ForceQuery \/ u.RawQuery # << >> THEN << "?" >> \o u.RawQuery ELSE << >>)
    \o (IF u.Fragment # << >> THEN << "#" >> \o u.Fragment ELSE << >>)

\* u.RawQuery = ""; videos[i].Href = u.String()
\* StripQuery with the link passed on as extracted
StripQueryKeeping(raw) == raw

StripQuery(raw) == urlString([urlParse(raw) EXCEPT !.RawQuery = << >>])

---------------------------------------------------------------------------
(* videoParseJS: the in-page script that lists the lessons *)

\* ParseItems with index++ moved above the check for a link element
RECURSIVE ParseItemsCountingAll(_, _, _)
ParseItemsCountingAll(items, sectionName, index) ==
    IF items = << >> THEN << >>
    ELSE IF ~Head(items).hasLink
         THEN ParseItemsCountingAll(Tail(items), sectionName, index + 1)
         ELSE << [ href    |-> Head(items).href,
                   section |-> sectionName,
                   title   |-> Head(items).title,
                   index   |-> index + 1 ] >>
              \o ParseItemsCountingAll(Tail(items), sectionName, index + 1)

\* the inner loop over one section's li.classroom-toc-item elements
RECURSIVE ParseItems(_, _, _)
ParseItems(items, sectionName, index) ==
    IF items = << >> THEN << >>
    ELSE IF ~Head(items).hasLink
         THEN ParseItems(Tail(items), sectionName, index)
         ELSE << [ href    |-> Head(items).href,
                   section |-> sectionName,
                   title   |-> Head(items).title,
                   index   |-> index + 1 ] >>
              \o ParseItems(Tail(items), sectionName, index + 1)

\* the outer loop over section.classroom-toc-section elements
RECURSIVE videoParseJS(_)
videoParseJS(sections) ==
    IF sections = << >> THEN << >>
    ELSE ParseItems(Head(sections).items, Head(sections).name, 0)
         \o videoParseJS(Tail(sections))

\* the for loop of parseCourseVideos over the raw entries
EntryOf(v) ==
    [ Href     |-> StripQuery(v.href),
      Section  |-> v.section,
      Title    |-> v.title,
      Index    |-> v.index,
      filename |-> FileStem(v) ]

\* BadURL with the result of url.Parse not checked
BadURLUnchecked(raw) == FALSE

\* some extracted link fails url.Parse
BadURL(raw) == \E k \in 1..Len(raw) : ~urlParse(raw[k].href).ok

NormalizeEntries(raw) == [k \in 1..Len(raw) |-> EntryOf(raw[k])]

---------------------------------------------------------------------------
(* The course pages the browser may render (environment inputs) *)

Linked(h, t) == [hasLink |-> TRUE, href |-> h, title |-> t]
Unlinked(t)  == [hasLink |-> FALSE, href |-> << >>, title |-> t]
Section(n, its) == [name |-> n, items |-> its]

\* one section, two lessons; the second link carries a query, and the browser
\* title style (" | LinkedIn Learning") shows in the first title
PageBasic ==
    << Section(<< "S","1" >>,
         << Linked(<< "/","a" >>, << "T","1"," " >> \o Branding),
            Linked(<< "/","b","?","u","=","7" >>, << "T","2" >>) >>) >>

\* two sections of two lessons, one lesson without a link element
PageGap ==
    << Section(<< "I","n","t","r","o" >>,
         << Linked(<< "/","a","?" >>, << "W","h","y" >>),
            Linked(<< "/","b","?","u","=","7","#","t" >>, << "H","o","w" >>) >>),
       Section(<< "E","n","d" >>,
         << Unlinked(<< "Q","u","i","z" >>),
            Linked(<< "/","c","%","2","0","d" >>, << "B","y","e" >>) >>) >>

\* two sections whose names differ only in characters the sanitizer replaces
PageAlike ==
    << Section(<< "A"," ","B" >>, << Linked(<< "/","x" >>, << "T" >>) >>),
       Section(<< "A","_","B" >>, << Linked(<< "/","y" >>, << "T" >>) >>) >>

\* the second link has a broken percent escape
PageBadLink ==
    << Section(<< "S" >>,
         << Linked(<< "/","a" >>, << "T","1" >>),
            Linked(<< "/","%","z","z" >>, << "T","2" >>) >>) >>

\* a section that lists no link-bearing lesson
PageNoLessons ==
    << Section(<< "S" >>, << Unlinked(<< "T" >>) >>) >>

Pages == { PageBasic, PageGap, PageAlike, PageBadLink, PageNoLessons }

---------------------------------------------------------------------------
(* Files *)

TxtExt  == << ".", "t","x","t" >>
JsonExt == << ".", "j","s","o","n" >>
Mp4Ext  == << ".", "m","p","4" >>

\* filename := video.filename + "." + ext
TranscriptPath(v, json) == v.filename \o (IF json THEN JsonExt ELSE TxtExt)

\* filename := video.filename + ".mp4"
VideoPath(v) == v.filename \o Mp4Ext

\* every path a run over page pg could write
PathsOf(pg) ==
    LET raw == videoParseJS(pg)
    IN  UNION { { FileStem(raw[k]) \o TxtExt, FileStem(raw[k]) \o JsonExt,
                  FileStem(raw[k]) \o Mp4Ext } : k \in 1..Len(raw) }

\* files left by an earlier run
OldFile == [by |-> 0, data |-> "old", url |-> << >>]

\* os.Create(path) followed by writes that end as data says; url is the
\* video.Href a transcript file records
WriteFile(fs, path, who, data, url) ==
    [p \in (DOMAIN fs) \cup {path} |->
        IF p = path THEN [by |-> who, data |-> data, url |-> url] ELSE fs[p]]

---------------------------------------------------------------------------
(* Initial state: flag.Parse() has returned, nothing else has run *)

NoLoad == [run |-> FALSE, err |-> FALSE, rateLimited |-> FALSE, hasTranscript |-> FALSE]

NoFiles == [p \in {} |-> OldFile]

NoFetch == [fetcher |-> "none", outcome |-> "none"]

NoCall == [fn |-> "none", arg |-> << >>, out |-> << >>]

Init ==
    /\ flag \in [transcripts : BOOLEAN, videos : BOOLEAN, json : BOOLEAN]
    /\ page \in Pages
    /\ files \in { NoFiles, [p \in PathsOf(page) |-> OldFile] }
    /\ pc = "flags"
    /\ session = FALSE
    /\ cancelled = FALSE
    /\ expired = FALSE
    /\ exitStatus = -1
    /\ fatal = "none"
    /\ videos = << >>
    /\ i = 0
    /\ href = << >>
    /\ count = 0
    /\ load = NoLoad
    /\ ret = "none"
    /\ navs = 0
    /\ sleeps = 0
    /\ nfRetries = 0
    /\ rlRetries = 0
    /\ res = << >>
    /\ inv = << >>
    /\ tf = << >>
    /\ vf = << >>
    /\ fetched = NoFetch
    /\ startedLate = FALSE
    /\ call = NoCall

---------------------------------------------------------------------------
(* Decisions of the code, as operators *)

\* n + 1, held at MaxCount: the code compares count with maxRetry only, so
\* with MaxCount > maxRetry every larger value takes the same branches
Inc(n) == IF n < MaxCount THEN n + 1 ELSE n

\* VisitBranch with the bound compared by > instead of >=
VisitBranchOneMore(err, rateLimited, hasTranscript, c) ==
    IF err THEN (IF c > maxRetry THEN "stop" ELSE "retryFailed")
    ELSE IF rateLimited THEN "retryLimited"
    ELSE IF ~hasTranscript THEN "noTranscript"
    ELSE "ready"

\* VisitBranch with a missing transcript control taken for a transient condition
VisitBranchRetryingAbsent(err, rateLimited, hasTranscript, c) ==
    IF err THEN (IF c >= maxRetry THEN "stop" ELSE "retryFailed")
    ELSE IF rateLimited \/ ~hasTranscript THEN "retryLimited"
    ELSE "ready"

\* VisitBranch with the transcript control looked for only when transcripts
\* were requested
VisitBranchByRequest(err, rateLimited, hasTranscript, c) ==
    IF err THEN (IF c >= maxRetry THEN "stop" ELSE "retryFailed")
    ELSE IF rateLimited THEN "retryLimited"
    ELSE IF flag.transcripts /\ ~hasTranscript THEN "noTranscript"
    ELSE "ready"

\* VisitBranch with a done context told apart from other navigation failures
VisitBranchCtxAware(err, rateLimited, hasTranscript, c) ==
    IF err THEN (IF c >= maxRetry \/ expired THEN "stop" ELSE "retryFailed")
    ELSE IF rateLimited THEN "retryLimited"
    ELSE IF ~hasTranscript THEN "noTranscript"
    ELSE "ready"

\* the branch visitVideo takes on what chromedp.Run answered, with count = c
VisitBranch(err, rateLimited, hasTranscript, c) ==
    IF err THEN (IF c >= maxRetry THEN "stop" ELSE "retryFailed")
    ELSE IF rateLimited THEN "retryLimited"
    ELSE IF ~hasTranscript THEN "noTranscript"
    ELSE "ready"

\* the count argument of the recursive call in the navigation-failed branch
FailedRetryCount(c) == Inc(c)

\* LimitedRetryCount with rate-limit retries not charged to the budget
LimitedRetryCountFree(c) == c

\* the count argument of the recursive call in the rate-limited branch
LimitedRetryCount(c) == Inc(c)

\* AfterVisit with the video fetched first; the transcript branch is not reached
AfterVisitVideoFirst(r, fl) ==
    IF r # "ready" THEN "loop"
    ELSE IF fl.videos THEN "video"
    ELSE IF fl.transcripts THEN "transcript"
    ELSE "loop"

\* AfterVisit with the error of visitVideo logged but not acted on
AfterVisitIgnoringError(r, fl) ==
    IF fl.transcripts THEN "transcript" ELSE IF fl.videos THEN "video" ELSE "loop"

\* where the loop body goes once visitVideo has returned r
AfterVisit(r, fl) ==
    IF r # "ready" THEN "loop"
    ELSE IF fl.transcripts THEN "transcript"
    ELSE IF fl.videos THEN "video"
    ELSE "loop"

\* AfterTranscript with a failed transcript fetched again
AfterTranscriptRetrying(ok, fl) ==
    IF ~ok THEN "transcript" ELSE IF fl.videos THEN "video" ELSE "loop"

\* AfterTranscript with the error of downloadTranscript logged but not acted on
AfterTranscriptIgnoringError(ok, fl) ==
    IF fl.videos THEN "video" ELSE "loop"

\* where the loop body goes once downloadTranscript has returned
AfterTranscript(ok, fl) ==
    IF ~ok THEN "loop" ELSE IF fl.videos THEN "video" ELSE "loop"

\* what downloadTranscript leaves at its path: "none" when it does not get
\* as far as os.Create succeeding
TranscriptData(outcome) ==
    CASE outcome = "scrapeErr" -> "none"
      [] outcome = "createErr" -> "none"
      [] outcome = "writeErr"  -> "partial"
      [] outcome = "ok"        -> "full"

TranscriptOutcomes == { "scrapeErr", "createErr", "writeErr", "ok" }

\* VideoData with os.Create moved down to just before io.Copy
VideoDataLateCreate(outcome) ==
    CASE outcome = "findErr"    -> "none"
      [] outcome = "emptyURL"   -> "none"
      [] outcome = "createErr"  -> "none"
      [] outcome = "requestErr" -> "none"
      [] outcome = "doErr"      -> "none"
      [] outcome = "statusErr"  -> "none"
      [] outcome = "copyErr"    -> "partial"
      [] outcome = "ok"         -> "full"

\* what downloadVideo leaves at its path
VideoData(outcome) ==
    CASE outcome = "findErr"    -> "none"
      [] outcome = "emptyURL"   -> "none"
      [] outcome = "createErr"  -> "none"
      [] outcome = "requestErr" -> "partial"
      [] outcome = "doErr"      -> "partial"
      [] outcome = "statusErr"  -> "partial"
      [] outcome = "copyErr"    -> "partial"
      [] outcome = "ok"         -> "full"

VideoOutcomes == { "findErr", "emptyURL", "createErr", "requestErr", "doErr",
                   "statusErr", "copyErr", "ok" }

\* whether the deferred cancel() has run when the process ends this way
CancelRunsOn(how) == how = "return"

---------------------------------------------------------------------------
(* Actions *)

\* variables no action but the visitVideo chain touches
visitVars == << href, count, load, ret, navs, sleeps, nfRetries, rlRetries >>

\* log.Fatal: the line is logged and os.Exit(1) ends the process
Fatal(kind) ==
    /\ pc' = "exited"
    /\ exitStatus' = 1
    /\ fatal' = kind
    /\ cancelled' = (cancelled \/ CancelRunsOn("fatal"))

\* main: neither -transcripts nor -videos
FlagsFatal ==
    /\ pc = "flags"
    /\ ~flag.videos /\ ~flag.transcripts
    /\ Fatal("flags")
    /\ UNCHANGED << flag, page, session, expired, videos, i, files, res, inv, tf, vf >>
    /\ UNCHANGED visitVars
    /\ UNCHANGED << fetched, startedLate, call >>

\* main: ctx, cancel := newChromeDPCtx(*timeout); defer cancel()
NewChromeDPCtx ==
    /\ pc = "flags"
    /\ flag.videos \/ flag.transcripts
    /\ session' = TRUE
    /\ pc' = "login"
    /\ UNCHANGED << flag, page, cancelled, expired, exitStatus, fatal, videos, i,
                    files, res, inv, tf, vf >>
    /\ UNCHANGED visitVars
    /\ UNCHANGED << fetched, startedLate, call >>

\* the timer of context.WithTimeout fires
Deadline ==
    /\ session /\ ~expired /\ pc # "exited"
    /\ expired' = TRUE
    /\ UNCHANGED << flag, page, pc, session, cancelled, exitStatus, fatal, videos, i,
                    files, res, inv, tf, vf >>
    /\ UNCHANGED visitVars
    /\ UNCHANGED << fetched, startedLate, call >>

\* main: ssoLogin and its error check
SsoLogin ==
    /\ pc = "login"
    /\ \E ok \in BOOLEAN :
        /\ expired => ~ok
        /\ IF ok
           THEN /\ pc' = "parse"
                /\ UNCHANGED << exitStatus, fatal, cancelled >>
           ELSE Fatal("login")
    /\ UNCHANGED << flag, page, session, expired, videos, i, files, res, inv, tf, vf >>
    /\ UNCHANGED visitVars
    /\ UNCHANGED << fetched, startedLate, call >>

\* main: parseCourseVideos and its error check
ParseCourseVideos ==
    /\ pc = "parse"
    /\ \E runOk \in BOOLEAN :
        /\ expired => ~runOk
        /\ LET raw == videoParseJS(page)
           IN  IF runOk /\ ~BadURL(raw)
               THEN /\ videos' = NormalizeEntries(raw)
                    /\ res' = [k \in 1..Len(raw) |-> "none"]
                    /\ inv' = [k \in 1..Len(raw) |-> 0]
                    /\ tf'  = [k \in 1..Len(raw) |-> 0]
                    /\ vf'  = [k \in 1..Len(raw) |-> 0]
                    /\ pc' = "loop"
                    /\ UNCHANGED << exitStatus, fatal, cancelled >>
               ELSE /\ Fatal("parse")
                    /\ UNCHANGED << videos, res, inv, tf, vf >>
    /\ UNCHANGED << flag, page, session, expired, i, files >>
    /\ UNCHANGED visitVars
    /\ UNCHANGED << fetched, startedLate, call >>

\* NextLesson with one counter for the whole run: after a lesson that used up
\* its retries the next call starts with none left
NextLessonRunWide ==
    /\ pc = "loop"
    /\ i < Len(videos)
    /\ i' = i + 1
    /\ href' = videos[i + 1].Href
    /\ count' = IF i > 0 /\ res[i] = "exhausted" THEN maxRetry ELSE 0
    /\ inv' = [inv EXCEPT ![i + 1] = Inc(@)]
    /\ fetched' = NoFetch
    /\ startedLate' = expired
    /\ pc' = "visit"
    /\ UNCHANGED << flag, page, session, cancelled, expired, exitStatus, fatal,
                    videos, files, res, tf, vf, load, ret, navs, sleeps,
                    nfRetries, rlRetries >>
    /\ UNCHANGED << call >>

\* main: the range loop steps to the next video and calls visitVideo(.., 0)
NextLesson ==
    /\ pc = "loop"
    /\ i < Len(videos)
    /\ i' = i + 1
    /\ href' = videos[i + 1].Href
    /\ count' = 0
    /\ inv' = [inv EXCEPT ![i + 1] = Inc(@)]
    /\ fetched' = NoFetch
    /\ startedLate' = expired
    /\ pc' = "visit"
    /\ UNCHANGED << flag, page, session, cancelled, expired, exitStatus, fatal,
                    videos, files, res, tf, vf, load, ret, navs, sleeps,
                    nfRetries, rlRetries >>
    /\ UNCHANGED << call >>

\* visitVideo: chromedp.Run(Navigate, Evaluate, Evaluate) and the branch on it
VisitVideo ==
    /\ pc = "visit"
    /\ \E err, rateLimited, hasTranscript \in BOOLEAN :
        /\ expired => err
        /\ err => ~rateLimited /\ ~hasTranscript
        /\ load' = [run |-> TRUE, err |-> err, rateLimited |-> rateLimited,
                    hasTranscript |-> hasTranscript]
        /\ navs' = Inc(navs)
        /\ LET b == VisitBranch(err, rateLimited, hasTranscript, count)
               r == CASE b = "stop"         -> "exhausted"
                      [] b = "noTranscript" -> "noTranscript"
                      [] b = "ready"        -> "ready"
                      [] OTHER              -> "none"
           IN  IF b = "retryFailed"
               THEN /\ pc' = "sleepFailed"
                    /\ UNCHANGED << ret, res >>
               ELSE IF b = "retryLimited"
               THEN /\ pc' = "sleepLimited"
                    /\ UNCHANGED << ret, res >>
               ELSE /\ ret' = r
                    /\ res' = [res EXCEPT ![i] = r]
                    /\ pc' = "visited"
    /\ UNCHANGED << flag, page, session, cancelled, expired, exitStatus, fatal,
                    videos, i, files, inv, tf, vf, href, count, sleeps,
                    nfRetries, rlRetries >>
    /\ UNCHANGED << fetched, startedLate, call >>

\* CheckVisit with a visitVideo error passed to log.Fatal instead of continue
CheckVisitFatal ==
    /\ pc = "visited"
    /\ IF ret = "ready"
       THEN /\ pc' = AfterVisit(ret, flag)
            /\ UNCHANGED << exitStatus, fatal, cancelled >>
       ELSE Fatal("visit")
    /\ href' = << >>
    /\ count' = 0
    /\ load' = NoLoad
    /\ ret' = "none"
    /\ navs' = 0
    /\ sleeps' = 0
    /\ nfRetries' = 0
    /\ rlRetries' = 0
    /\ startedLate' = FALSE
    /\ UNCHANGED << flag, page, session, expired, videos, i, files, res, inv, tf, vf >>
    /\ UNCHANGED << fetched, call >>

\* main: the error check on visitVideo's result; the call chain is over
CheckVisit ==
    /\ pc = "visited"
    /\ pc' = AfterVisit(ret, flag)
    /\ href' = << >>
    /\ count' = 0
    /\ load' = NoLoad
    /\ ret' = "none"
    /\ navs' = 0
    /\ sleeps' = 0
    /\ nfRetries' = 0
    /\ rlRetries' = 0
    /\ startedLate' = FALSE
    /\ UNCHANGED << flag, page, session, cancelled, expired, exitStatus, fatal,
                    videos, i, files, res, inv, tf, vf >>
    /\ UNCHANGED << fetched, call >>

\* visitVideo, navigation failed: time.Sleep(backoff); visitVideo(.., count+1)
BackoffFailed ==
    /\ pc = "sleepFailed"
    /\ sleeps' = Inc(sleeps)
    /\ nfRetries' = Inc(nfRetries)
    /\ count' = FailedRetryCount(count)
    /\ pc' = "visit"
    /\ UNCHANGED << flag, page, session, cancelled, expired, exitStatus, fatal,
                    videos, i, files, res, inv, tf, vf, href, load, ret, navs,
                    rlRetries >>
    /\ UNCHANGED << fetched, startedLate, call >>

\* BackoffLimited with the recursive call made at once, without time.Sleep
BackoffLimitedNoSleep ==
    /\ pc = "sleepLimited"
    /\ rlRetries' = Inc(rlRetries)
    /\ count' = LimitedRetryCount(count)
    /\ pc' = "visit"
    /\ UNCHANGED << flag, page, session, cancelled, expired, exitStatus, fatal,
                    videos, i, files, res, inv, tf, vf, href, load, ret, navs,
                    nfRetries, sleeps >>
    /\ UNCHANGED << fetched, startedLate, call >>

\* visitVideo, rate limited: time.Sleep(backoff); visitVideo(.., count+1)
BackoffLimited ==
    /\ pc = "sleepLimited"
    /\ sleeps' = Inc(sleeps)
    /\ rlRetries' = Inc(rlRetries)
    /\ count' = LimitedRetryCount(count)
    /\ pc' = "visit"
    /\ UNCHANGED << flag, page, session, cancelled, expired, exitStatus, fatal,
                    videos, i, files, res, inv, tf, vf, href, load, ret, navs,
                    nfRetries >>
    /\ UNCHANGED << fetched, startedLate, call >>

\* main: downloadTranscript(ctx, video, *saveJSON) and its error check
DownloadTranscript ==
    /\ pc = "transcript"
    /\ \E outcome \in TranscriptOutcomes :
        /\ expired => outcome = "scrapeErr"
        /\ files' = IF TranscriptData(outcome) = "none" THEN files
                    ELSE WriteFile(files, TranscriptPath(videos[i], flag.json), i,
                                   TranscriptData(outcome), videos[i].Href)
        /\ fetched' = [fetcher |-> "transcript", outcome |-> outcome]
        /\ pc' = AfterTranscript(outcome = "ok", flag)
    /\ tf' = [tf EXCEPT ![i] = Inc(@)]
    /\ UNCHANGED << flag, page, session, cancelled, expired, exitStatus, fatal,
                    videos, i, res, inv, vf >>
    /\ UNCHANGED visitVars
    /\ UNCHANGED << startedLate, call >>

\* main: downloadVideo(ctx, video) and its error check
DownloadVideo ==
    /\ pc = "video"
    /\ \E outcome \in VideoOutcomes :
        /\ expired => outcome = "findErr"
        /\ files' = IF VideoData(outcome) = "none" THEN files
                    ELSE WriteFile(files, VideoPath(videos[i]), i, VideoData(outcome),
                                   << >>)
        /\ fetched' = [fetcher |-> "video", outcome |-> outcome]
    /\ pc' = "loop"
    /\ vf' = [vf EXCEPT ![i] = Inc(@)]
    /\ UNCHANGED << flag, page, session, cancelled, expired, exitStatus, fatal,
                    videos, i, res, inv, tf >>
    /\ UNCHANGED visitVars
    /\ UNCHANGED << startedLate, call >>

\* main: the loop is over; the last log line, return, and the deferred cancel()
Finish ==
    /\ pc = "loop"
    /\ i >= Len(videos)
    /\ pc' = "exited"
    /\ exitStatus' = 0
    /\ cancelled' = (cancelled \/ CancelRunsOn("return"))
    /\ UNCHANGED << flag, page, session, expired, fatal, videos, i, files,
                    res, inv, tf, vf >>
    /\ UNCHANGED visitVars
    /\ UNCHANGED << fetched, startedLate, call >>

Next ==
    \/ FlagsFatal
    \/ NewChromeDPCtx
    \/ Deadline
    \/ SsoLogin
    \/ ParseCourseVideos
    \/ NextLesson
    \/ VisitVideo
    \/ CheckVisit
    \/ BackoffFailed
    \/ BackoffLimited
    \/ DownloadTranscript
    \/ DownloadVideo
    \/ Finish

Spec == Init /\ [][Next]_vars

\* the program's own steps: a sequential program that is not at its end keeps
\* running.  Deadline is not among them: -timeout is whatever duration the
\* caller passes, and no number of page loads is sure to outlast it
Step ==
    \/ FlagsFatal
    \/ NewChromeDPCtx
    \/ SsoLogin
    \/ ParseCourseVideos
    \/ NextLesson
    \/ VisitVideo
    \/ CheckVisit
    \/ BackoffFailed
    \/ BackoffLimited
    \/ DownloadTranscript
    \/ DownloadVideo
    \/ Finish

FairSpec == Init /\ [][Next]_vars /\ WF_vars(Step)

---------------------------------------------------------------------------
(* Functions applied on their own, main() not running *)

progVars == << flag, page, pc, session, cancelled, expired, exitStatus, fatal,
               videos, i, href, count, load, ret, files, navs, sleeps, nfRetries,
               rlRetries, res, inv, tf, vf, fetched, startedLate >>

\* no run of main() is in progress
Idle ==
    /\ flag = [transcripts |-> FALSE, videos |-> FALSE, json |-> FALSE]
    /\ page = << >>
    /\ files = NoFiles
    /\ pc = "call"
    /\ session = FALSE
    /\ cancelled = FALSE
    /\ expired = FALSE
    /\ exitStatus = -1
    /\ fatal = "none"
    /\ videos = << >>
    /\ i = 0
    /\ href = << >>
    /\ count = 0
    /\ load = NoLoad
    /\ ret = "none"
    /\ navs = 0
    /\ sleeps = 0
    /\ nfRetries = 0
    /\ rlRetries = 0
    /\ res = << >>
    /\ inv = << >>
    /\ tf = << >>
    /\ vf = << >>
    /\ fetched = NoFetch
    /\ startedLate = FALSE

\* one character of each kind sanitizeFileName tells apart: valid, the
\* replacement itself, white space, the first character of the branding, and
\* another invalid one
SanitizeAlphabet == {"a", "_", " ", "|", "/"}

ShortStrings(n) == UNION { [1..k -> SanitizeAlphabet] : k \in 0..n }

\* short strings, the branding between any two characters, and the branding
\* with a second copy of it inserted at each position
SanitizeInputs ==
    ShortStrings(MaxLen)
    \cup { x \o Branding \o y : x, y \in ShortStrings(1) }
    \cup { SubSeq(Branding, 1, k) \o Branding \o SubSeq(Branding, k + 1, Len(Branding))
             : k \in 1..(Len(Branding) - 1) }

SanitizeInit ==
    /\ Idle
    /\ call \in { [fn |-> "none", arg |-> x, out |-> << >>] : x \in SanitizeInputs }

\* sanitizeFileName(x)
Sanitize ==
    /\ call.fn = "none"
    /\ call' = [fn |-> "sanitizeFileName", arg |-> call.arg,
                out |-> sanitizeFileName(call.arg)]
    /\ UNCHANGED progVars

\* sanitizeFileName applied to its own result
SanitizeAgain ==
    /\ call.fn = "sanitizeFileName"
    /\ call' = [fn |-> "sanitizeFileName2", arg |-> call.out,
                out |-> sanitizeFileName(call.out)]
    /\ UNCHANGED progVars

SanitizeNext == Sanitize \/ SanitizeAgain

SanitizeSpec == SanitizeInit /\ [][SanitizeNext]_vars

\* the k-th li.classroom-toc-item of the s-th section; link and title tell
\* where in the document the item stands
ItemAt(s, k, linked) ==
    IF linked
    THEN Linked(<< "/", DigitChar[s + 1], DigitChar[k + 1] >>, << "T", DigitChar[k + 1] >>)
    ELSE Unlinked(<< "T", DigitChar[k + 1] >>)

SectionAt(s, marks) ==
    Section(<< "S", DigitChar[s + 1] >>, [k \in 1..Len(marks) |-> ItemAt(s, k, marks[k])])

\* which items of a section carry a link element
Marks == UNION { [1..n -> BOOLEAN] : n \in 0..MaxItems }

\* every course page of up to MaxSections sections of up to MaxItems items
GenPages ==
    UNION { { [s \in 1..n |-> SectionAt(s, m[s])] : m \in [1..n -> Marks] }
              : n \in 0..MaxSections }

ExtractInit ==
    /\ Idle
    /\ call \in { [fn |-> "none", arg |-> pg, out |-> << >>] : pg \in GenPages }

\* chromedp.Evaluate(videoParseJS, &videos) on the rendered page
Extract ==
    /\ call.fn = "none"
    /\ call' = [fn |-> "videoParseJS", arg |-> call.arg, out |-> videoParseJS(call.arg)]
    /\ UNCHANGED progVars

\* parseCourseVideos' loop over what the script returned
Normalize ==
    /\ call.fn = "videoParseJS"
    /\ ~BadURL(call.out)
    /\ call' = [fn |-> "parseCourseVideos", arg |-> call.arg,
                out |-> NormalizeEntries(call.out)]
    /\ UNCHANGED progVars

ExtractNext == Extract \/ Normalize

ExtractSpec == ExtractInit /\ [][ExtractNext]_vars

---------------------------------------------------------------------------
(* Properties *)

Lessons == 1..Len(videos)

InVisit == pc \in {"visit", "sleepFailed", "sleepLimited", "visited"}

\* a step of VisitVideo: the only one that leaves "visit"
RunStep == pc = "visit" /\ pc' # "visit"

\* C1: within one visitVideo chain the retries (count, and the sleeps that go
\* with them) never exceed maxRetry, and the navigations never exceed maxRetry + 1
C1_RetriesWithinBound ==
    InVisit => /\ count <= maxRetry
               /\ sleeps <= maxRetry
               /\ navs <= maxRetry + 1

C4_TeardownOnExit == (pc = "exited" /\ session) => cancelled

\* C5: in a course whose (Section, Index) pairs are pairwise distinct, the
\* filenames of the entries are pairwise distinct
C5_StemsDistinct ==
    (\A j, k \in Lessons :
        j # k => << videos[j].Section, videos[j].Index >>
                 # << videos[k].Section, videos[k].Index >>)
    => (\A j, k \in Lessons : j # k => videos[j].filename # videos[k].filename)

\* C6: a fetcher runs for a lesson, and a file carries that lesson's data,
\* only if visitVideo returned nil for it
C6_FetchOnlyIfReady ==
    /\ pc \in {"transcript", "video"} => res[i] = "ready"
    /\ \A k \in Lessons :
          res[k] # "ready" =>
              /\ tf[k] = 0
              /\ vf[k] = 0
              /\ \A p \in DOMAIN files : files[p].by # k

C6_Witness ==
    /\ pc = "exited"
    /\ \E j, k \in Lessons :
          /\ res[j] = "exhausted"
          /\ res[k] = "noTranscript"
          /\ tf[j] = 0 /\ vf[j] = 0 /\ tf[k] = 0 /\ vf[k] = 0

C7_Order ==
    /\ i \in 0..Len(videos)
    /\ \A k \in Lessons :
          /\ inv[k] = (IF k <= i THEN 1 ELSE 0)
          /\ tf[k] <= 1
          /\ vf[k] <= 1
          /\ k > i => (res[k] = "none" /\ tf[k] = 0 /\ vf[k] = 0)
          /\ k < i => res[k] # "none"
          /\ (vf[k] = 1 /\ flag.transcripts) => tf[k] = 1
    /\ pc = "transcript" => vf[i] = 0
    /\ (pc = "exited" /\ exitStatus = 0) => i = Len(videos)

C7_OneAtATime ==
    /\ i' \in {i, i + 1}
    /\ i' = i + 1 => (pc = "loop" /\ pc' = "visit")
    /\ \A k \in Lessons :
          (inv'[k] # inv[k] \/ res'[k] # res[k] \/ tf'[k] # tf[k] \/ vf'[k] # vf[k])
          => k = i'

\* C7: lessons are taken in list order, one at a time: each lesson up to the
\* current one has had exactly one visitVideo call and no later one any, each
\* fetcher runs at most once per lesson, downloadTranscript before
\* downloadVideo, and only the current lesson's record changes
C7_InOrderOnce == [] C7_Order /\ [][C7_OneAtATime]_vars

C7_Witness ==
    /\ pc = "exited"
    /\ Len(videos) = 3
    /\ \A k \in Lessons : inv[k] = 1 /\ tf[k] = 1 /\ vf[k] = 1

\* C8: a failed login or a failed extraction (a bad link included) ends the
\* process with a non-zero status before any lesson is visited or file written
C8_SetupFailureFatal ==
    /\ fatal \in {"login", "parse"} =>
          /\ pc = "exited"
          /\ exitStatus # 0
    /\ (fatal \in {"login", "parse"}
        \/ \E k \in 1..Len(videoParseJS(page)) : ~urlParse(videoParseJS(page)[k].href).ok)
       => /\ videos = << >>
          /\ i = 0
          /\ navs = 0
          /\ \A p \in DOMAIN files : files[p] = OldFile
          /\ pc \notin {"loop", "visit", "visited", "sleepFailed", "sleepLimited",
                        "transcript", "video"}
          /\ exitStatus # 0

C8_Witness ==
    /\ fatal = "parse"
    /\ ~expired
    /\ page = PageBadLink
    /\ pc = "exited"

\* C9: a failed navigation met after maxRetry or more retries of either kind
\* makes visitVideo return the error with no sleep
C9_SharedBudget ==
    [][ (RunStep /\ load'.err /\ nfRetries + rlRetries >= maxRetry)
        => (pc' = "visited" /\ ret' = "exhausted" /\ sleeps' = sleeps
            /\ count' = count) ]_vars

C9_Witness ==
    /\ pc = "visited"
    /\ ret = "exhausted"
    /\ rlRetries = 4
    /\ nfRetries = 2

\* C10: a page that loads, is not rate limited and has no transcript control
\* makes visitVideo return an error from that very call, whatever count is
C10_AbsentNeverRetried ==
    [][ (RunStep /\ ~load'.err /\ ~load'.rateLimited /\ ~load'.hasTranscript)
        => (pc' = "visited" /\ ret' = "noTranscript" /\ sleeps' = sleeps
            /\ count' = count /\ navs' = Inc(navs)) ]_vars

C10_Witness ==
    /\ pc = "visited"
    /\ ret = "noTranscript"
    /\ count > maxRetry

\* C11: one time.Sleep lies between consecutive navigations of a chain, none
\* before the first and none after the last: a chain about to navigate has
\* slept as often as it has navigated, one that sleeps or has returned once
\* less; a page rate limited k times and then ready gives k + 1 navigations,
\* k sleeps and nil (counts below MaxCount, where the history stops counting)
C11_OneSleepBetween ==
    /\ (pc = "visit" /\ navs < MaxCount) => sleeps = navs
    /\ (pc \in {"sleepFailed", "sleepLimited", "visited"} /\ navs < MaxCount)
          => sleeps = navs - 1
    /\ (pc = "visited" /\ ret = "ready" /\ nfRetries = 0 /\ rlRetries < MaxCount - 1)
          => (navs = rlRetries + 1 /\ sleeps = rlRetries)

C11_Witness ==
    /\ pc = "visited"
    /\ ret = "ready"
    /\ nfRetries = 0
    /\ rlRetries = 2
    /\ navs = 3
    /\ sleeps = 2

\* C12 as stated: a chain whose every navigation fails returns the error after
\* exactly 6 navigations
C12_SixAttempts ==
    (pc = "visited" /\ ret = "exhausted" /\ rlRetries = 0) => navs = maxRetry

\* C12 amended: a chain whose every navigation fails returns the error after
\* exactly maxRetry + 1 = 7 navigations: the first and maxRetry retries
C12_SevenAttempts ==
    (pc = "visited" /\ ret = "exhausted" /\ rlRetries = 0)
       => (navs = maxRetry + 1 /\ nfRetries = maxRetry /\ sleeps = maxRetry)

C12_Witness ==
    /\ pc = "visited"
    /\ ret = "exhausted"
    /\ rlRetries = 0
    /\ load.err
    /\ navs = maxRetry + 1

\* C13: with both artifacts requested, downloadVideo runs only after
\* downloadTranscript has run for the same lesson, and when it fails the
\* transcript file that call wrote is still there, complete
C13_VideoErrorKeepsTranscript ==
    [][ (pc = "video" /\ pc' = "loop" /\ flag.transcripts /\ fetched'.outcome # "ok")
        => LET tp == TranscriptPath(videos[i], flag.json)
           IN  /\ tf[i] = 1
               /\ fetched = [fetcher |-> "transcript", outcome |-> "ok"]
               /\ tp \in DOMAIN files'
               /\ files'[tp] = [by |-> i, data |-> "full", url |-> videos[i].Href] ]_vars

C13_Witness ==
    /\ pc = "loop"
    /\ flag.transcripts /\ flag.videos
    /\ fetched = [fetcher |-> "video", outcome |-> "emptyURL"]
    /\ tf[i] = 1
    /\ TranscriptPath(videos[i], flag.json) \in DOMAIN files
    /\ files[TranscriptPath(videos[i], flag.json)].data = "full"
    /\ files[TranscriptPath(videos[i], flag.json)].by = i

Traversal == {"loop", "visit", "sleepFailed", "sleepLimited", "visited",
              "transcript", "video"}

\* what a step may do once the deadline has passed
C14_AfterDeadline ==
    expired =>
        /\ RunStep => load'.err
        /\ (pc = "transcript" /\ pc' # pc) => fetched'.outcome = "scrapeErr"
        /\ (pc = "video" /\ pc' # pc) => fetched'.outcome = "findErr"
        /\ files' = files
        /\ \A k \in Lessons :
              res[k] # "ready" =>
                  /\ res'[k] \in {res[k], "exhausted"}
                  /\ tf'[k] = tf[k]
                  /\ vf'[k] = vf[k]
        /\ (pc \in Traversal /\ pc' = "exited") => (exitStatus' = 0 /\ fatal' = "none")

UnderscoreBranding ==
    << "_", "L","i","n","k","e","d","I","n", "_", "L","e","a","r","n","i","n","g" >>

\* C15: sanitizeFileName never returns a character outside [A-Za-z0-9._-],
\* returns the empty string for the empty string, and applied to its own
\* result returns that result
C15_SanitizeIdempotent ==
    /\ call.fn \in {"sanitizeFileName", "sanitizeFileName2"}
          => \A k \in 1..Len(call.out) : call.out[k] \in ValidChar
    /\ (call.fn = "sanitizeFileName" /\ call.arg = << >>) => call.out = << >>
    /\ call.fn = "sanitizeFileName2" => call.out = call.arg

\* the branding left over by the removal of a nested copy has been sanitized twice
C15_Witness ==
    /\ call.fn = "sanitizeFileName2"
    /\ call.arg = UnderscoreBranding
    /\ call.out = UnderscoreBranding

\* positions << s, k >> of the items of page pg that carry a link element
LinkedAt(pg) ==
    UNION { { << s, k >> : k \in { j \in 1..Len(pg[s].items) : pg[s].items[j].hasLink } }
              : s \in 1..Len(pg) }

\* C16: videoParseJS returns one entry per link-bearing item, in document
\* order, and numbers the link-bearing items of each section 1..k; items
\* without a link take no number
C16_LinkedItemsNumbered ==
    call.fn = "videoParseJS" =>
        LET pg  == call.arg
            out == call.out
            At  == LinkedAt(pg)
            Rank(p)    == Cardinality({ q \in At : q[1] < p[1] \/ (q[1] = p[1] /\ q[2] <= p[2]) })
            IndexIn(p) == Cardinality({ q \in At : q[1] = p[1] /\ q[2] <= p[2] })
        IN  /\ Len(out) = Cardinality(At)
            /\ \A p \in At :
                  /\ out[Rank(p)].href = pg[p[1]].items[p[2]].href
                  /\ out[Rank(p)].title = pg[p[1]].items[p[2]].title
                  /\ out[Rank(p)].section = pg[p[1]].name
                  /\ out[Rank(p)].index = IndexIn(p)
            /\ \A s \in 1..Len(pg) :
                  { out[n].index : n \in { m \in 1..Len(out) : out[m].section = pg[s].name } }
                     = 1..Cardinality({ q \in At : q[1] = s })

\* two sections of two items, the third item without a link: three entries
\* numbered 1, 2 and 1
C16_Witness ==
    /\ call.fn = "videoParseJS"
    /\ Len(call.arg) = 2
    /\ Len(call.arg[1].items) = 2
    /\ Len(call.arg[2].items) = 2
    /\ ~call.arg[2].items[1].hasLink
    /\ Len(call.out) = 3
    /\ call.out[1].index = 1
    /\ call.out[2].index = 2
    /\ call.out[3].index = 1
    /\ call.out[3].href = call.arg[2].items[2].href

\* link is the extracted link raw with its query component dropped
Canonical(link, raw) ==
    /\ urlParse(link).ok
    /\ urlParse(link).RawQuery = << >>
    /\ urlParse(link).Path = urlParse(raw).Path
    /\ urlParse(link).Fragment = urlParse(raw).Fragment

\* C17: through a whole visitVideo chain, first attempt and retries alike, the
\* link navigated to is the current lesson's extracted link without its query,
\* and so is the link recorded in every transcript file the run writes
C17_QueryStripped ==
    /\ InVisit =>
          /\ i \in Lessons
          /\ href = videos[i].Href
          /\ Canonical(href, videoParseJS(page)[i].href)
    /\ \A p \in DOMAIN files :
          files[p].url # << >> =>
              /\ files[p].by \in Lessons
              /\ files[p].url = videos[files[p].by].Href
              /\ Canonical(files[p].url, videoParseJS(page)[files[p].by].href)

\* the lesson extracted as /b?u=7#t is on its third attempt after a transcript
\* of the lesson before it was written
C17_Witness ==
    /\ pc = "visit"
    /\ page = PageGap
    /\ i = 2
    /\ navs = 2
    /\ href = << "/","b","#","t" >>
    /\ \E p \in DOMAIN files : files[p].by = 1 /\ files[p].url = << "/","a","?" >>

\* C18: with both artifacts requested, a downloadTranscript that fails for
\* the current lesson sends the loop straight on: downloadVideo is not called
\* for that lesson and writes no .mp4 for it
C18_TranscriptErrorSkipsVideo ==
    (flag.transcripts /\ flag.videos
       /\ fetched.fetcher = "transcript" /\ fetched.outcome # "ok")
    => /\ pc \in {"loop", "exited"}
       /\ vf[i] = 0
       /\ VideoPath(videos[i]) \in DOMAIN files => files[VideoPath(videos[i])].by # i

\* a write error left a partial transcript; the loop stands before the next lesson
C18_Witness ==
    /\ flag.transcripts /\ flag.videos
    /\ pc = "loop"
    /\ i = 1
    /\ Len(videos) > 1
    /\ res[1] = "ready"
    /\ fetched = [fetcher |-> "transcript", outcome |-> "writeErr"]
    /\ tf[1] = 1
    /\ vf[1] = 0

\* C19: whatever was requested, a page that loads, is not rate limited and
\* shows no transcript control makes visitVideo return "no transcript", and
\* neither fetcher is ever called for that lesson
C19_MarkerIsTranscript ==
    /\ (pc = "visited" /\ load.run /\ ~load.err /\ ~load.rateLimited /\ ~load.hasTranscript)
          => ret = "noTranscript"
    /\ \A k \in Lessons :
          res[k] = "noTranscript" =>
              /\ tf[k] = 0
              /\ vf[k] = 0
              /\ \A p \in DOMAIN files : files[p].by # k

\* a videos-only run is over; its first lesson had no transcript control
C19_Witness ==
    /\ flag.videos /\ ~flag.transcripts
    /\ pc = "exited"
    /\ exitStatus = 0
    /\ Len(videos) > 1
    /\ res[1] = "noTranscript"
    /\ vf[1] = 0
    /\ res[2] = "ready"
    /\ vf[2] = 1

\* C20: a visitVideo chain begun after the deadline fails every navigation,
\* goes through all maxRetry retries with a full sleep before each, and only
\* then returns its error
C20_LateLessonRetriesInFull ==
    /\ (startedLate /\ InVisit) => (expired /\ rlRetries = 0 /\ (load.run => load.err))
    /\ (startedLate /\ pc = "visited")
          => /\ ret = "exhausted"
             /\ navs = maxRetry + 1
             /\ nfRetries = maxRetry
             /\ sleeps = maxRetry

\* the second lesson, begun after the deadline, has just been given up
C20_Witness ==
    /\ startedLate
    /\ pc = "visited"
    /\ i = 2
    /\ res[1] = "ready"
    /\ ret = "exhausted"
    /\ navs = maxRetry + 1
    /\ sleeps = maxRetry

\* C21: a downloadVideo that fails before os.Create (no video element, empty
\* src) leaves every file as it was; one that fails after it (request, HTTP
\* status, copy) leaves at the .mp4 path a file of this call that is empty or
\* partial, whatever stood there before, and touches no other path
C21_VideoFailureOnDisk ==
    [][ (pc = "video" /\ pc' = "loop")
        => LET vp == VideoPath(videos[i])
               o  == fetched'.outcome
           IN  /\ o \in {"findErr", "emptyURL"} => files' = files
               /\ o \in {"requestErr", "doErr", "statusErr", "copyErr"}
                     => /\ vp \in DOMAIN files'
                        /\ files'[vp] = [by |-> i, data |-> "partial", url |-> << >>]
                        /\ \A p \in (DOMAIN files') \ {vp} :
                              p \in DOMAIN files /\ files'[p] = files[p] ]_vars

\* a videos-only run over files of an earlier run: the server answered with
\* an error status, and the old .mp4 is gone while the old transcript stands
C21_Witness ==
    /\ pc = "loop"
    /\ i \in Lessons
    /\ ~flag.transcripts
    /\ fetched = [fetcher |-> "video", outcome |-> "statusErr"]
    /\ TranscriptPath(videos[i], FALSE) \in DOMAIN files
    /\ files[TranscriptPath(videos[i], FALSE)] = OldFile
    /\ files[VideoPath(videos[i])] = [by |-> i, data |-> "partial", url |-> << >>]

\* C22: every visitVideo call made by the loop starts with count 0, count only
\* ever holds the retries of the running chain, and a chain that sees nothing
\* but navigation failures gets all maxRetry retries whatever earlier lessons used
C22_CounterPerLesson ==
    /\ (pc = "visit" /\ navs = 0) => count = 0
    /\ (InVisit /\ pc # "visited" /\ count < MaxCount) => count = nfRetries + rlRetries
    /\ (pc = "visited" /\ ret = "exhausted" /\ rlRetries = 0) => nfRetries = maxRetry

\* the lesson after an exhausted one failed maxRetry times and then loaded
C22_Witness ==
    /\ pc = "visited"
    /\ i = 2
    /\ res[1] = "exhausted"
    /\ ret = "ready"
    /\ nfRetries = maxRetry
    /\ rlRetries = 0
    /\ navs = maxRetry + 1

====
